---- MODULE Spec2Model ----
(***************************************************************************)
(* Node-DBI: the DBWrapper facade (connect / close / fetch retry protocol, *)
(* SQL assembly for insert / update / remove, WHERE-clause assembly) over  *)
(* the mysql adapter.                                                      *)
(*                                                                         *)
(* JavaScript values are records [t |-> <type tag>, v |-> <payload>]; for  *)
(* scalars the payload is the value's String() form, so that string        *)
(* concatenation and String.prototype.replace are computed on text.        *)
(***************************************************************************)
EXTENDS Naturals, Sequences, FiniteSets, TLC

VARIABLES
    _adapter,   \* DBWrapper._adapter: 0 is null, otherwise an index of adapters
    adapters,   \* every adapter instance createInstance has returned so far
    calls,      \* every call a caller has made on the facade, with its progress
    whereLog    \* the results of the _whereExpr calls made so far

vars == <<_adapter, adapters, calls, whereLog>>

\* ------------------------------------------------------------------ bounds

MaxCalls == 2
MaxAdapters == 2
MaxWhereCalls == 2

\* ------------------------------------------------------------ JS values

NoAdapter == 0

Num(s) == [t |-> "number", v |-> s]
Str(s) == [t |-> "string", v |-> s]
Arr(s) == [t |-> "array", v |-> s]
Obj(pairs) == [t |-> "object", v |-> pairs]
DBExpr(s) == [t |-> "DBExpr", v |-> s]
DBSelect(s) == [t |-> "DBSelect", v |-> s]
AdapterRef(a) == [t |-> "adapter", v |-> a]
Null == [t |-> "null", v |-> "null"]
Undefined == [t |-> "undefined", v |-> "undefined"]
Fn == [t |-> "function", v |-> "callback"]

NoErr == [kind |-> "null", adapter |-> 0]
UndefErr == [kind |-> "undefined", adapter |-> 0]
Err(kind, a) == [kind |-> kind, adapter |-> a]
IsErr(e) == e.kind \notin {"null", "undefined"}

\* ------------------------------------------------------------ the driver

Malformed == {"SELEC 1", "DELET FROM t"}
Binds == {Arr(<<>>)}

Row(x, y) == Obj(<<[k |-> "x", v |-> x], [k |-> "y", v |-> y]>>)

\* the rows the database holds for each well-formed SELECT of the model
rowsOf(sql) ==
    CASE sql = "SELECT x, y FROM t" ->
             Arr(<<Row(Num("1"), Num("2")), Row(Num("3"), Num("4"))>>)
      [] sql = "SELECT x, y FROM t WHERE x IS NULL" -> Arr(<<Row(Null, Num("2"))>>)
      [] sql = "SELECT x, y FROM t WHERE 1=0" -> Arr(<<>>)
      [] OTHER -> Arr(<<Obj(<<[k |-> "1", v |-> Num("1")]>>)>>)

\* What the native client can answer to a statement sent on adapter a: a
\* statement it rejects fails on every connection; any statement can fail
\* because the connection is gone.
fetchOutcomes(sql, a) ==
    {[err |-> Err("ConnectionLost", a), rows |-> Undefined],
     IF sql \in Malformed
     THEN [err |-> Err("QueryError", a), rows |-> Undefined]
     ELSE [err |-> NoErr, rows |-> rowsOf(sql)]}

\* the auto-generated keys the database can report for a statement
insertIds(sql) == IF Len(sql) >= 6 /\ SubSeq(sql, 1, 6) = "INSERT" THEN {1, 2} ELSE {0}

\* What the native client can answer to a non-SELECT statement
queryOutcomes(sql, a) ==
    {[err |-> Err("ConnectionLost", a), insertId |-> 0, affectedRows |-> 0]}
    \cup (IF sql \in Malformed
          THEN {[err |-> Err("QueryError", a), insertId |-> 0, affectedRows |-> 0]}
          ELSE {[err |-> NoErr, insertId |-> n, affectedRows |-> 1] : n \in insertIds(sql)})

\* --------------------------------------------------------------- records

\* conn: the adapter's connection-result event (pending, or how it fired);
\* seq: the position of that event among all the events fired so far;
\* closing: whether the adapter's close was invoked, and has completed;
\* owner: the call whose connect created the adapter and holds its listener
NewAdapter(owner) ==
    [conn |-> "connecting", seq |-> 0, closing |-> "open", owner |-> owner,
     _lastInsertId |-> Null]

\* pc: where the call is; on: the adapter its pending request was sent to;
\* after: this._adapter when the call returned to its caller;
\* issued / results: the statements the call handed to an adapter and the
\* answers it got; connectCbs: what connect's callback was given, per phase;
\* reconnects: the connects started at line 144; cb: the invocations of the
\* caller's callback, each with this._adapter at that moment;
\* args: the arguments of an _insert / _update / _remove / _query call;
\* callback: what the adapter's query was handed as its callback
NewCall(op, sql, bind, pc, on, after) ==
    [op |-> op, sql |-> sql, bind |-> bind, pc |-> pc, on |-> on, after |-> after,
     args |-> <<>>, callback |-> Fn,
     issued |-> IF pc = "fetch1"
                THEN <<[adapter |-> on, sql |-> sql, bind |-> bind]>> ELSE <<>>,
     results |-> <<>>, connectCbs |-> <<>>, reconnects |-> 0, cb |-> <<>>]

AdapterIds == 1..Len(adapters)
CallIds == 1..Len(calls)

isConnected == _adapter # NoAdapter

\* the callback of call c is invoked with (err, res) while the facade holds held
invoke(cs, c, err, res, held) ==
    [cs EXCEPT ![c].pc = "done", ![c].on = NoAdapter,
               ![c].cb = Append(@, [err |-> err, res |-> res, held |-> held])]

\* the adapter's fetchAll is handed the call's statement on adapter a
issue(cs, c, a, pc) ==
    [cs EXCEPT ![c].pc = pc, ![c].on = a,
               ![c].issued = Append(@, [adapter |-> a, sql |-> cs[c].sql, bind |-> cs[c].bind])]

\* ------------------------------------------------------- result wrappers

firstKey(row) == IF Len(row.v) = 0 THEN "undefined" ELSE row.v[1].k

RECURSIVE lookup(_, _)
lookup(pairs, k) ==
    IF Len(pairs) = 0 THEN Undefined
    ELSE IF pairs[1].k = k THEN pairs[1].v ELSE lookup(Tail(pairs), k)

fetchRowResult(err, res) ==
    IF IsErr(err) THEN [err |-> err, res |-> Undefined]
    ELSE IF res.t = "array" /\ Len(res.v) > 0 THEN [err |-> NoErr, res |-> res.v[1]]
    ELSE [err |-> NoErr, res |-> Null]

\* fetchColResult that stops after the first row
fetchColResult_FirstRowOnly(err, res) ==
    IF IsErr(err) THEN [err |-> err, res |-> Undefined]
    ELSE IF res.t = "array" /\ Len(res.v) > 0
         THEN [err |-> NoErr, res |-> Arr(<<lookup(res.v[1].v, firstKey(res.v[1]))>>)]
         ELSE [err |-> NoErr, res |-> Arr(<<>>)]

fetchColResult(err, res) ==
    IF IsErr(err) THEN [err |-> err, res |-> Undefined]
    ELSE IF res.t = "array"
         THEN LET firstFieldName == IF Len(res.v) = 0 THEN "undefined" ELSE firstKey(res.v[1])
              IN [err |-> NoErr,
                  res |-> Arr([i \in 1..Len(res.v) |-> lookup(res.v[i].v, firstFieldName)])]
         ELSE [err |-> NoErr, res |-> Arr(<<>>)]

\* fetchOneResult answering callback(null, null) for an empty result set
fetchOneResult_NullForEmpty(err, res) ==
    LET row == fetchRowResult(err, res)
    IN IF IsErr(row.err) THEN [err |-> row.err, res |-> Undefined]
       ELSE IF row.res.t \in {"null", "undefined"} THEN [err |-> NoErr, res |-> Null]
       ELSE [err |-> NoErr, res |-> lookup(row.res.v, firstKey(row.res))]

fetchOneResult(err, res) ==
    LET row == fetchRowResult(err, res)
    IN IF IsErr(row.err) THEN [err |-> row.err, res |-> Undefined]
       ELSE IF row.res.t \in {"null", "undefined"} THEN [err |-> UndefErr, res |-> Undefined]
       ELSE [err |-> NoErr, res |-> lookup(row.res.v, firstKey(row.res))]

\* what the caller's callback receives when fetchAll's callback gets (err, res)
wrapped(op, err, res) ==
    CASE op = "fetchRow" -> fetchRowResult(err, res)
      [] op = "fetchCol" -> fetchColResult(err, res)
      [] op = "fetchOne" -> fetchOneResult(err, res)
      [] OTHER -> [err |-> err, res |-> res]

FetchOps == {"fetchAll", "fetchRow", "fetchCol", "fetchOne"}

\* ------------------------------------------------------------ JS helpers

\* ToBoolean(x) is false
falsy(x) ==
    \/ x.t \in {"null", "undefined"}
    \/ x.t = "string" /\ x.v = ""
    \/ x.t = "number" /\ x.v \in {"0", "NaN"}
    \/ x.t = "boolean" /\ x.v = "false"

\* lodash _.isEmpty: collections by their size, everything else is empty
isEmpty(x) ==
    IF x.t \in {"array", "object"} THEN Len(x.v) = 0
    ELSE IF x.t = "string" THEN x.v = ""
    ELSE x.t \notin {"DBExpr", "DBSelect", "Date"}

typeof(x) ==
    CASE x.t \in {"number", "string", "boolean", "undefined", "function"} -> x.t
      [] OTHER -> "object"

RECURSIVE join(_, _)
join(strs, sep) ==
    IF Len(strs) = 0 THEN ""
    ELSE IF Len(strs) = 1 THEN strs[1]
    ELSE strs[1] \o sep \o join(Tail(strs), sep)

\* String(x), for the values the model passes around
String(x) ==
    IF x.t = "array"
    THEN join([i \in 1..Len(x.v) |->
                  IF x.v[i].t \in {"null", "undefined", "array", "object"} THEN ""
                  ELSE x.v[i].v], ",")
    ELSE IF x.t = "object" THEN "[object Object]"
    ELSE x.v

\* the text Array.prototype.join gives an element
joinText(x) == IF x.t \in {"null", "undefined"} THEN "" ELSE String(x)

Digits == {"0", "1", "2", "3", "4", "5", "6", "7", "8", "9"}

RECURSIVE allDigits(_)
allDigits(s) ==
    Len(s) = 0 \/ (SubSeq(s, 1, 1) \in Digits /\ allDigits(SubSeq(s, 2, Len(s))))

\* isNaN(x): Number(x) is NaN (numeric strings are digit strings here)
isNaN(x) ==
    CASE x.t = "number" -> x.v = "NaN"
      [] x.t \in {"null", "boolean"} -> FALSE
      [] x.t = "undefined" -> TRUE
      [] x.t = "object" -> TRUE
      [] OTHER -> ~allDigits(String(x))

\* the replacement text of String.prototype.replace for one match of /\?/:
\* $$ is a dollar, $& the match, $' the text after it; $ followed by a grave
\* accent is the text before the match, and no text of the model holds one
RECURSIVE substitution(_, _, _)
substitution(repl, before, after) ==
    IF Len(repl) = 0 THEN ""
    ELSE IF SubSeq(repl, 1, 1) = "$" /\ Len(repl) >= 2
              /\ SubSeq(repl, 2, 2) \in {"$", "&", "'"}
         THEN (CASE SubSeq(repl, 2, 2) = "$" -> "$"
                 [] SubSeq(repl, 2, 2) = "&" -> "?"
                 [] OTHER -> after)
              \o substitution(SubSeq(repl, 3, Len(repl)), before, after)
         ELSE SubSeq(repl, 1, 1) \o substitution(SubSeq(repl, 2, Len(repl)), before, after)

\* str.replace(/\?/g, repl), from position i of str on
RECURSIVE replaceFrom(_, _, _)
replaceFrom(str, repl, i) ==
    IF i > Len(str) THEN ""
    ELSE (IF SubSeq(str, i, i) = "?"
          THEN substitution(repl, SubSeq(str, 1, i - 1), SubSeq(str, i + 1, Len(str)))
          ELSE SubSeq(str, i, i))
         \o replaceFrom(str, repl, i + 1)

replace(str, repl) == replaceFrom(str, repl, 1)

\* --------------------------------------------------------- mysql adapter

\* the native client's escape of a string: quotes, with ' " \ backslashed
RECURSIVE backslashed(_)
backslashed(s) ==
    IF Len(s) = 0 THEN ""
    ELSE (IF SubSeq(s, 1, 1) \in {"'", "\"", "\\"} THEN "\\" ELSE "")
         \o SubSeq(s, 1, 1) \o backslashed(SubSeq(s, 2, Len(s)))

dbClientEscape(value) ==
    CASE value.t \in {"null", "undefined"} -> "NULL"
      [] value.t \in {"number", "boolean"} -> value.v
      [] OTHER -> "'" \o backslashed(String(value)) \o "'"

_stringifyDate(value) == value.v

\* Adapter.prototype.escape
adapterEscape(value) ==
    IF value.t = "Date" THEN Str("'" \o _stringifyDate(value) \o "'")
    ELSE IF isNaN(value) THEN Str(dbClientEscape(value))
    ELSE value

escapeField(name) == "\"" \o name \o "\""
escapeTable(name) == escapeField(name)

\* ------------------------------------------------------------- DBWrapper

\* DBWrapper.prototype.escape
escape(value) ==
    IF value.t = "DBExpr" THEN Str(value.v)
    ELSE IF value.t = "array"
    THEN Str(join([i \in 1..Len(value.v) |-> joinText(adapterEscape(value.v[i]))], ", "))
    ELSE adapterEscape(value)

assemble(select) == select.v

elem(s, i) == IF i <= Len(s) THEN s[i] ELSE Undefined

\* one term of _whereExpr's loop, rendered (lines 422-436)
termText(term) ==
    IF typeof(term) = "string" THEN term.v
    ELSE IF term.t = "DBSelect" THEN assemble(term)
    ELSE IF term.t = "array"
    THEN replace(elem(term.v, 1).v, String(escape(elem(term.v, 2))))
    ELSE String(term)

\* _whereExpr without line 416-417: a bare term is not made a sequence
_whereExpr_NoNormalize(where) ==
    IF falsy(where) THEN where
    ELSE IF where.t # "array" THEN Str(termText(where))
    ELSE Str(join([i \in 1..Len(where.v) |-> "(" \o termText(where.v[i]) \o ")"], " AND "))

\* DBWrapper.prototype._whereExpr
_whereExpr(where) ==
    IF falsy(where) THEN where
    ELSE LET terms == IF where.t = "array" THEN where.v ELSE <<where>>
         IN Str(join([i \in 1..Len(terms) |-> "(" \o termText(terms[i]) \o ")"], " AND "))

\* whether _whereExpr(where) ends in a TypeError while the facade holds held:
\* a pair term needs term[0].replace and this._adapter.escape
whereThrows(where, held) ==
    /\ ~falsy(where)
    /\ where.t = "array"
    /\ \E i \in 1..Len(where.v) :
           /\ where.v[i].t = "array"
           /\ \/ typeof(elem(where.v[i].v, 1)) # "string"
              \/ held = NoAdapter /\ elem(where.v[i].v, 2).t # "DBExpr"

instanceofDBAdapterAbstract == TRUE

\* DBWrapper.prototype.connect, on behalf of call c: a new adapter replaces
\* the held one and its connection attempt starts
connect(c) ==
    /\ Len(adapters) < MaxAdapters
    /\ adapters' = Append(adapters, NewAdapter(c))
    /\ _adapter' = Len(adapters) + 1

\* a caller calls connect(callback)
Connect ==
    /\ Len(calls) < MaxCalls
    /\ connect(Len(calls) + 1)
    /\ LET call == NewCall("connect", "", Arr(<<>>), "connecting", NoAdapter, _adapter')
       IN calls' = Append(calls,
                     IF instanceofDBAdapterAbstract THEN call
                     ELSE invoke(<<call>>, 1, Err("NotAnAdapter", _adapter'),
                                 Undefined, _adapter')[1])
    /\ UNCHANGED whereLog

\* a caller calls close(callback)
close ==
    /\ Len(calls) < MaxCalls
    /\ IF _adapter = NoAdapter
       THEN /\ UNCHANGED <<_adapter, adapters>>
            /\ calls' = Append(calls,
                          NewCall("close", "", Arr(<<>>), "threw", NoAdapter, _adapter'))
       ELSE /\ adapters' = [adapters EXCEPT ![_adapter].closing = "closing"]
            /\ _adapter' = NoAdapter
            /\ calls' = Append(calls,
                          NewCall("close", "", Arr(<<>>), "closing", _adapter, _adapter'))
    /\ UNCHANGED whereLog

\* the adapter's close completes and answers close's callback
closeCallback(c) ==
    /\ calls[c].op = "close" /\ calls[c].pc = "closing"
    /\ adapters' = [adapters EXCEPT ![calls[c].on].closing = "closed"]
    /\ calls' = invoke(calls, c, NoErr, Undefined, _adapter)
    /\ UNCHANGED <<_adapter, whereLog>>

\* connectCallback handing the caller of a fetch the first fetch's error when
\* the reconnect fails
connectCallback_FetchError(c, err, a, held) ==
    LET cs == [calls EXCEPT ![c].connectCbs =
                   Append(@, [phase |-> calls[c].pc, err |-> err])]
    IN IF calls[c].op = "connect" THEN
           invoke(cs, c, err, IF IsErr(err) THEN Undefined ELSE AdapterRef(a), held)
       ELSE IF IsErr(err) THEN
           LET e == IF calls[c].pc = "reconnecting" THEN calls[c].results[1].err ELSE err
               w == wrapped(calls[c].op, e, Undefined)
           IN invoke(cs, c, w.err, w.res, held)
       ELSE
           issue(cs, c, held, IF calls[c].pc = "connecting" THEN "fetch1" ELSE "fetch2")

\* the callback connect was given by call c, invoked by the listener
connectCallback(c, err, a, held) ==
    LET cs == [calls EXCEPT ![c].connectCbs =
                   Append(@, [phase |-> calls[c].pc, err |-> err])]
    IN IF calls[c].op = "connect" THEN
           invoke(cs, c, err, IF IsErr(err) THEN Undefined ELSE AdapterRef(a), held)
       ELSE IF IsErr(err) THEN
           LET w == wrapped(calls[c].op, err, Undefined)
           IN invoke(cs, c, w.err, w.res, held)
       ELSE
           issue(cs, c, held, IF calls[c].pc = "connecting" THEN "fetch1" ELSE "fetch2")

\* listener with line 65 left out: a failed connect keeps the reference
listener_KeepOnError(a, err) ==
    /\ adapters[a].conn = "connecting"
    /\ _adapter # NoAdapter
    /\ adapters' = [adapters EXCEPT
                      ![a].conn = IF IsErr(err) THEN "failed" ELSE "connected",
                      ![a].seq = 1 + Cardinality({b \in AdapterIds :
                                                    adapters[b].conn # "connecting"})]
    /\ _adapter' = IF IsErr(err) THEN _adapter ELSE a
    /\ calls' = connectCallback(adapters[a].owner, err, a, _adapter')
    /\ UNCHANGED whereLog

\* the connection-result event of adapter a fires and runs connect's listener
listener(a, err) ==
    /\ adapters[a].conn = "connecting"
    /\ LET c == adapters[a].owner
           fired == [adapters EXCEPT
                        ![a].conn = IF IsErr(err) THEN "failed" ELSE "connected",
                        ![a].seq = 1 + Cardinality({b \in AdapterIds :
                                                      adapters[b].conn # "connecting"})]
       IN IF _adapter = NoAdapter
          THEN \* this._adapter.removeListener throws a TypeError
               /\ adapters' = fired
               /\ calls' = [calls EXCEPT ![c].pc = "threw"]
               /\ UNCHANGED _adapter
          ELSE /\ adapters' = fired
               /\ _adapter' = IF IsErr(err) THEN NoAdapter ELSE a
               /\ calls' = connectCallback(c, err, a, _adapter')
    /\ UNCHANGED whereLog

onConnectionSuccess == \E a \in AdapterIds : listener(a, NoErr)
onConnectionFailure == \E a \in AdapterIds : listener(a, Err("ConnectionError", a))

\* a caller calls fetchAll / fetchRow / fetchCol / fetchOne (sql, bind, callback)
fetchAll(op, sql, bind) ==
    /\ Len(calls) < MaxCalls
    /\ IF _adapter # NoAdapter
       THEN \* connectIfNotConnected hands over the held adapter at once
            /\ UNCHANGED <<_adapter, adapters>>
            /\ calls' = Append(calls, NewCall(op, sql, bind, "fetch1", _adapter, _adapter'))
       ELSE /\ connect(Len(calls) + 1)
            /\ calls' = Append(calls,
                          NewCall(op, sql, bind, "connecting", NoAdapter, _adapter'))
    /\ UNCHANGED whereLog

Fetch == \E sql \in {"SELECT 1", "SELEC 1"}, bind \in Binds : fetchAll("fetchAll", sql, bind)

SelectSqls ==
    {"SELECT x, y FROM t", "SELECT x, y FROM t WHERE x IS NULL",
     "SELECT x, y FROM t WHERE 1=0"}

\* a caller calls fetchRow or fetchOne (sql, bind, callback)
FetchFirst ==
    \E op \in {"fetchRow", "fetchOne"}, sql \in SelectSqls, bind \in Binds :
        /\ op = "fetchOne" => sql # "SELECT x, y FROM t"
        /\ op = "fetchRow" => sql # "SELECT x, y FROM t WHERE x IS NULL"
        /\ fetchAll(op, sql, bind)

\* a caller calls fetchCol(sql, bind, callback)
FetchCol ==
    \E sql \in SelectSqls \ {"SELECT x, y FROM t WHERE x IS NULL"}, bind \in Binds :
        fetchAll("fetchCol", sql, bind)

\* the adapter answers the first fetch of call c
fetchCallback(c, out) ==
    /\ calls[c].pc = "fetch1"
    /\ IF IsErr(out.err)
       THEN /\ connect(c)
            /\ calls' = [calls EXCEPT ![c].pc = "reconnecting", ![c].on = NoAdapter,
                                      ![c].results = Append(@, out),
                                      ![c].reconnects = @ + 1]
       ELSE /\ LET w == wrapped(calls[c].op, NoErr, out.rows)
               IN calls' = invoke([calls EXCEPT ![c].results = Append(@, out)],
                                  c, w.err, w.res, _adapter)
            /\ UNCHANGED <<_adapter, adapters>>
    /\ UNCHANGED whereLog

onFetchResult ==
    \E c \in CallIds : \E out \in fetchOutcomes(calls[c].sql, calls[c].on) :
        fetchCallback(c, out)

\* retryCallback handing the caller the first attempt's error
retryCallback_FirstError(c, out) ==
    /\ calls[c].pc = "fetch2"
    /\ calls' = invoke([calls EXCEPT ![c].results = Append(@, out)],
                       c, calls[c].results[1].err, out.rows, _adapter)
    /\ UNCHANGED <<_adapter, adapters, whereLog>>

\* the adapter answers the retried fetch of call c
retryCallback(c, out) ==
    /\ calls[c].pc = "fetch2"
    /\ LET w == wrapped(calls[c].op, out.err, out.rows)
       IN calls' = invoke([calls EXCEPT ![c].results = Append(@, out)],
                          c, w.err, w.res, _adapter)
    /\ UNCHANGED <<_adapter, adapters, whereLog>>

onRetryResult ==
    \E c \in CallIds : \E out \in fetchOutcomes(calls[c].sql, calls[c].on) :
        retryCallback(c, out)

onCloseDone == \E c \in CallIds : closeCallback(c)

\* unpackSelectArgs: the last argument is the callback, the rest is the bind
unpackSelectArgs(args) ==
    LET callback == IF Len(args) = 0 THEN Undefined ELSE args[Len(args)]
        rest == IF Len(args) = 0 THEN <<>> ELSE SubSeq(args, 1, Len(args) - 1)
    IN IF Len(rest) = 0
       THEN [threw |-> FALSE, bind |-> Arr(<<>>), callback |-> callback]
       ELSE IF typeof(rest[1]) = "object"
       THEN [threw |-> Len(rest) # 1, bind |-> rest[1], callback |-> callback]
       ELSE [threw |-> FALSE, bind |-> Arr(rest), callback |-> callback]

\* DBWrapper.prototype._query on behalf of the call record: the call once the held
\* adapter's query was handed the statement
_query(call, sql, args) ==
    LET u == unpackSelectArgs(args)
        text == IF sql.t = "DBSelect" THEN assemble(sql) ELSE String(sql)
    IN IF u.threw \/ _adapter = NoAdapter THEN [call EXCEPT !.pc = "threw"]
       ELSE [call EXCEPT !.pc = "query", !.on = _adapter, !.sql = text,
                         !.bind = u.bind, !.callback = u.callback,
                         !.issued = Append(@, [adapter |-> _adapter, sql |-> text,
                                               bind |-> u.bind])]

\* a caller calls _query(sql, bind, callback)
Query ==
    /\ Len(calls) < MaxCalls
    /\ \E sql \in {"DELETE FROM t", "DELET FROM t"} :
           calls' = Append(calls,
                      _query(NewCall("_query", sql, Arr(<<>>), "start", NoAdapter, _adapter),
                             Str(sql), <<Arr(<<>>), Fn>>))
    /\ UNCHANGED <<_adapter, adapters, whereLog>>

\* Adapter.prototype.query's completion function (lines 121-138)
queryCallback(c, out) ==
    /\ calls[c].pc = "query"
    /\ LET a == calls[c].on
           cs == [calls EXCEPT ![c].results = Append(@, out)]
       IN IF falsy(calls[c].callback)
          THEN /\ calls' = [cs EXCEPT ![c].pc = "done", ![c].on = NoAdapter]
               /\ UNCHANGED adapters
          ELSE /\ adapters' =
                      IF ~IsErr(out.err) /\ out.insertId > 0
                      THEN [adapters EXCEPT ![a]._lastInsertId = Num(ToString(out.insertId))]
                      ELSE adapters
               /\ calls' =
                      IF calls[c].callback.t # "function"
                      THEN [cs EXCEPT ![c].pc = "threw", ![c].on = NoAdapter]
                      ELSE IF IsErr(out.err)
                      THEN invoke(cs, c, out.err, Undefined, _adapter)
                      ELSE invoke(cs, c, NoErr, Num(ToString(out.affectedRows)), _adapter)
    /\ UNCHANGED <<_adapter, whereLog>>

onQueryResult ==
    \E c \in {k \in CallIds : calls[k].pc = "query"} :
        \E out \in queryOutcomes(calls[c].sql, calls[c].on) : queryCallback(c, out)

\* Adapter.prototype.getLastInsertId
getLastInsertId(a) == adapters[a]._lastInsertId

\* the statements and the argument lists after sql that callers give _query:
\* nothing, a callback, a bind array and a callback, a bind array alone, a
\* bind value alone
QuerySqls == {"INSERT INTO t(x) VALUES(?)", "DELET FROM t"}
QueryArgs ==
    {<<>>, <<Fn>>, <<Arr(<<Num("5")>>), Fn>>, <<Arr(<<Num("5")>>)>>, <<Num("5")>>}

\* a caller calls _query(sql, ...args), with or without a callback
QueryShapes ==
    /\ Len(calls) < MaxCalls
    /\ \E sql \in QuerySqls, args \in QueryArgs :
           calls' = Append(calls,
                      _query([NewCall("_query", sql, Arr(<<>>), "start", NoAdapter, _adapter)
                                 EXCEPT !.args = [rest |-> args]],
                             Str(sql), args))
    /\ UNCHANGED <<_adapter, adapters, whereLog>>

\* ---------------------------------------------- insert / update / remove

Tables == {"users"}
Bob == [k |-> "name", v |-> Str("bob")]
Age == [k |-> "age", v |-> Num("5")]
Datas == {Null, Obj(<<>>), Obj(<<Bob>>), Obj(<<Bob, Age>>), Obj(<<Age, Bob>>)}
Pair(template, value) == Arr(<<Str(template), value>>)
StatementWheres ==
    {Str(""), Arr(<<>>), Str("id=1"), Arr(<<Pair("id=?", Num("5"))>>),
     Arr(<<Str("a=1"), Pair("name=?", Str("bob"))>>)}

values(data) == [i \in 1..Len(data.v) |-> data.v[i].v]

\* noWhere without the empty-collection test
noWhere_StringOnly(where) ==
    \/ falsy(where)
    \/ typeof(where) = "string" /\ Len(where.v) = 0

\* the where check of _update and _remove (lines 285 and 328)
noWhere(where) ==
    \/ falsy(where)
    \/ typeof(where) = "string" /\ Len(where.v) = 0
    \/ typeof(where) = "object" /\ isEmpty(where)

BuilderCall(op, tableName, data, where) ==
    [NewCall(op, "", Arr(<<>>), "start", NoAdapter, _adapter) EXCEPT
        !.args = [tableName |-> tableName, data |-> data, where |-> where]]

\* the call ends in callback(new Error(message)) with nothing issued
rejected(call, message) == invoke(<<call>>, 1, Err(message, NoAdapter), Undefined, _adapter)[1]

\* insertSql with a single placeholder whatever the number of fields
insertSql_OnePlaceholder(tableName, data) ==
    "INSERT INTO " \o escapeTable(tableName)
    \o "(" \o join([i \in 1..Len(data.v) |-> escapeField(data.v[i].k)], ", ")
    \o ") VALUES(?)"

insertSql(tableName, data) ==
    "INSERT INTO " \o escapeTable(tableName)
    \o "(" \o join([i \in 1..Len(data.v) |-> escapeField(data.v[i].k)], ", ")
    \o ") VALUES(" \o join([i \in 1..Len(data.v) |-> "?"], ", ") \o ")"

\* DBWrapper.prototype._insert
_insert(tableName, data) ==
    /\ Len(calls) < MaxCalls
    /\ LET call == BuilderCall("_insert", tableName, data, Undefined)
       IN calls' = Append(calls,
              IF falsy(data) \/ isEmpty(data)
              THEN rejected(call, "DBWrapper.insert() called without data !")
              ELSE IF _adapter = NoAdapter THEN [call EXCEPT !.pc = "threw"]
              ELSE _query(call, Str(insertSql(tableName, data)), <<Arr(values(data)), Fn>>))
    /\ UNCHANGED <<_adapter, adapters, whereLog>>

\* updateSql with the fields in reverse order
updateSql_Reversed(tableName, data, where) ==
    "UPDATE " \o escapeTable(tableName) \o " SET "
    \o join([i \in 1..Len(data.v) |->
                escapeField(data.v[Len(data.v) + 1 - i].k) \o "=?"], ", ")
    \o " WHERE " \o String(_whereExpr(where))

updateSql(tableName, data, where) ==
    "UPDATE " \o escapeTable(tableName) \o " SET "
    \o join([i \in 1..Len(data.v) |-> escapeField(data.v[i].k) \o "=?"], ", ")
    \o " WHERE " \o String(_whereExpr(where))

\* DBWrapper.prototype._update
_update(tableName, data, where) ==
    /\ Len(calls) < MaxCalls
    /\ LET call == BuilderCall("_update", tableName, data, where)
       IN calls' = Append(calls,
              IF falsy(data) \/ isEmpty(data)
              THEN rejected(call, "DBWrapper.update() called without data !")
              ELSE IF noWhere(where)
              THEN rejected(call, "DBWrapper.update() called without where !")
              ELSE IF _adapter = NoAdapter \/ whereThrows(where, _adapter)
              THEN [call EXCEPT !.pc = "threw"]
              ELSE _query(call, Str(updateSql(tableName, data, where)),
                          <<Arr(values(data)), Fn>>))
    /\ UNCHANGED <<_adapter, adapters, whereLog>>

removeSql(tableName, where) ==
    "DELETE FROM " \o escapeTable(tableName) \o " WHERE " \o String(_whereExpr(where))

\* DBWrapper.prototype._remove
_remove(tableName, where) ==
    /\ Len(calls) < MaxCalls
    /\ LET call == BuilderCall("_remove", tableName, Undefined, where)
       IN calls' = Append(calls,
              IF noWhere(where)
              THEN rejected(call, "DBWrapper.update() called without where !")
              ELSE IF _adapter = NoAdapter \/ whereThrows(where, _adapter)
              THEN [call EXCEPT !.pc = "threw"]
              ELSE _query(call, Str(removeSql(tableName, where)), <<Arr(<<>>), Fn>>))
    /\ UNCHANGED <<_adapter, adapters, whereLog>>

Insert == \E t \in Tables, d \in Datas : _insert(t, d)
Update == \E t \in Tables, d \in Datas, w \in StatementWheres : _update(t, d, w)
Remove == \E t \in Tables, w \in StatementWheres : _remove(t, w)

\* wheres without a condition, and one with
BlankWheres ==
    {Str(""), Str("  "), Arr(<<>>), Arr(<<Str("")>>), Arr(<<Str(""), Str("")>>),
     Str("id=1")}

UpdateBlank == \E t \in Tables, w \in BlankWheres : _update(t, Obj(<<Bob>>), w)
RemoveBlank == \E t \in Tables, w \in BlankWheres : _remove(t, w)

\* ------------------------------------------------------------ _whereExpr

Terms ==
    {Str("a=1"), Str("b=2"), DBSelect("SELECT id FROM t"), Pair("id=?", Num("5")),
     Pair("name=?", Str("bob")), Pair("name=?", Str("US$")),
     Pair("a=? OR b=?", Str("x$&y"))}
Wheres ==
    Terms \cup {Arr(<<t>>) : t \in Terms}
    \cup {Str(""), Arr(<<Str("")>>), Arr(<<Str("a=1"), Str("b=2")>>),
          Arr(<<Pair("id=?", Num("5")), Str("b=2")>>)}

TypeError == [t |-> "threw", v |-> "TypeError"]

\* a caller calls _whereExpr(where)
WhereExpr ==
    /\ Cardinality(whereLog) < MaxWhereCalls
    /\ \E w \in Wheres :
           whereLog' = whereLog \cup
               {[where |-> w, held |-> _adapter,
                 ret |-> IF whereThrows(w, _adapter) THEN TypeError ELSE _whereExpr(w)]}
    /\ UNCHANGED <<_adapter, adapters, calls>>

\* ---------------------------------------------------------------- escape

EscapeValues ==
    {DBExpr("NOW()"), DBExpr("5"), Num("1"), Str("a"), Str("o'k"), Null, Arr(<<>>),
     Arr(<<Num("1"), Str("a")>>), Arr(<<DBExpr("NOW()"), Num("1")>>)}
EscapeWheres == {Arr(<<Pair("d<?", DBExpr("NOW()"))>>), Arr(<<Pair("n=?", Str("a"))>>)}

\* a synchronous call of op with one argument has returned ret, or has thrown
Returned(op, value, ret) ==
    [NewCall(op, "", Arr(<<>>), IF ret = TypeError THEN "threw" ELSE "done",
             NoAdapter, _adapter)
        EXCEPT !.args = [value |-> value], !.results = <<ret>>]

\* whether DBWrapper.prototype.escape reads this._adapter for the value
needsAdapter(value) == value.t # "DBExpr" /\ ~(value.t = "array" /\ Len(value.v) = 0)

\* a caller calls the facade's escape(value)
Escape ==
    /\ Len(calls) < MaxCalls
    /\ \E value \in EscapeValues :
           calls' = Append(calls,
                      Returned("escape", value,
                               IF _adapter = NoAdapter /\ needsAdapter(value)
                               THEN TypeError ELSE escape(value)))
    /\ UNCHANGED <<_adapter, adapters, whereLog>>

\* a caller calls escape(value) on the adapter the facade holds
AdapterEscape ==
    /\ Len(calls) < MaxCalls
    /\ _adapter # NoAdapter
    /\ \E value \in {v \in EscapeValues : v.t # "array"} :
           calls' = Append(calls, Returned("adapter.escape", value, adapterEscape(value)))
    /\ UNCHANGED <<_adapter, adapters, whereLog>>

\* a caller calls _whereExpr with a [template, value] pair
WhereEscape ==
    /\ Len(calls) < MaxCalls
    /\ \E where \in EscapeWheres :
           calls' = Append(calls,
                      Returned("_whereExpr", where,
                               IF whereThrows(where, _adapter)
                               THEN TypeError ELSE _whereExpr(where)))
    /\ UNCHANGED <<_adapter, adapters, whereLog>>

\* ------------------------------------------------------------ constructor

_availableAdapters == <<"mysql-libmysqlclient", "mysql", "sqlite3", "pg">>

\* Array.prototype.indexOf with positions from 1, and 0 for an absent value
indexOf(array, value) ==
    IF \E i \in 1..Len(array) : Str(array[i]) = value
    THEN CHOOSE i \in 1..Len(array) :
             /\ Str(array[i]) = value
             /\ \A j \in 1..(i - 1) : Str(array[j]) # value
    ELSE 0

Thrown(message) == [t |-> "threw", v |-> message]

\* new DBWrapper that takes any adapter name
DBWrapper_AnyName(arguments) ==
    IF 2 > Len(arguments) THEN Thrown("too few arguments given")
    ELSE [t |-> "DBWrapper",
          v |-> [dbAdapterName |-> elem(arguments, 1),
                 connectionParams |-> elem(arguments, 2), _adapter |-> Undefined]]

\* new DBWrapper(...arguments): the facade, or the Error the constructor throws
DBWrapper(arguments) ==
    LET dbAdapterName == elem(arguments, 1)
        connectionParams == elem(arguments, 2)
    IN IF 2 > Len(arguments) THEN Thrown("too few arguments given")
       ELSE IF indexOf(_availableAdapters, dbAdapterName) = 0
       THEN Thrown("Unknown adapter \"" \o String(dbAdapterName) \o "\" ! (should be one of "
                   \o join(_availableAdapters, "|") \o ")")
       ELSE [t |-> "DBWrapper",
             v |-> [dbAdapterName |-> dbAdapterName,
                    connectionParams |-> connectionParams, _adapter |-> Undefined]]

AdapterNames ==
    {Str("mysql-libmysqlclient"), Str("mysql"), Str("sqlite3"), Str("pg"),
     Str("oracle"), Str("MySQL"), Str(""), Undefined}
ConnectionParams == {Obj(<<[k |-> "host", v |-> Str("localhost")]>>), Undefined}
ConstructorArguments ==
    {<<>>} \cup {<<n>> : n \in AdapterNames}
    \cup {<<n, p>> : n \in AdapterNames, p \in ConnectionParams}

\* a caller evaluates new DBWrapper(...arguments) next to the facade
Construct ==
    /\ Len(calls) < MaxCalls
    /\ \E arguments \in ConstructorArguments :
           LET r == DBWrapper(arguments)
           IN calls' = Append(calls,
                         [NewCall("new DBWrapper", "", Arr(<<>>),
                                  IF r.t = "threw" THEN "threw" ELSE "done",
                                  NoAdapter, _adapter)
                             EXCEPT !.args = [arguments |-> arguments], !.results = <<r>>])
    /\ UNCHANGED <<_adapter, adapters, whereLog>>

Init ==
    /\ _adapter = NoAdapter
    /\ adapters = <<>>
    /\ calls = <<>>
    /\ whereLog = {}

Next ==
    \/ Connect
    \/ close
    \/ onCloseDone
    \/ onConnectionSuccess
    \/ onConnectionFailure
    \/ Fetch
    \/ onFetchResult
    \/ onRetryResult

Spec == Init /\ [][Next]_vars

\* the statement-building operations on a facade that connects
NextStatements ==
    \/ Connect
    \/ onConnectionSuccess
    \/ onConnectionFailure
    \/ Insert
    \/ Update
    \/ Remove
    \/ Query
    \/ onQueryResult

SpecStatements == Init /\ [][NextStatements]_vars

\* _whereExpr on a facade that may hold an adapter
NextWhere ==
    \/ Connect
    \/ WhereExpr

SpecWhere == Init /\ [][NextWhere]_vars

\* _query in every argument shape on a facade that connects
NextQuery ==
    \/ Connect
    \/ onConnectionSuccess
    \/ onConnectionFailure
    \/ QueryShapes
    \/ onQueryResult

SpecQuery == Init /\ [][NextQuery]_vars

\* fetchRow and fetchOne on a facade that connects when it has to
NextFetchFirst ==
    \/ FetchFirst
    \/ onConnectionSuccess
    \/ onConnectionFailure
    \/ onFetchResult
    \/ onRetryResult

SpecFetchFirst == Init /\ [][NextFetchFirst]_vars

\* fetchCol on a facade that connects when it has to
NextFetchCol ==
    \/ FetchCol
    \/ onConnectionSuccess
    \/ onConnectionFailure
    \/ onFetchResult
    \/ onRetryResult

SpecFetchCol == Init /\ [][NextFetchCol]_vars

\* the escaping paths of the facade and of the adapter it holds
NextEscape ==
    \/ Connect
    \/ Escape
    \/ AdapterEscape
    \/ WhereEscape

SpecEscape == Init /\ [][NextEscape]_vars

\* constructions next to a facade that connects
NextConstruct ==
    \/ Construct
    \/ Connect
    \/ onConnectionSuccess
    \/ onConnectionFailure

SpecConstruct == Init /\ [][NextConstruct]_vars

\* the facade with adapters that answer every connect, fetch and close
SpecLive ==
    /\ Init /\ [][Next]_vars
    /\ WF_vars(onConnectionSuccess \/ onConnectionFailure)
    /\ WF_vars(onFetchResult)
    /\ WF_vars(onRetryResult)
    /\ WF_vars(onCloseDone)

\* _update and _remove with wheres that hold no condition
NextBlank ==
    \/ Connect
    \/ onConnectionSuccess
    \/ onConnectionFailure
    \/ UpdateBlank
    \/ RemoveBlank
    \/ onQueryResult

SpecBlank == Init /\ [][NextBlank]_vars

\* ================================================================ claims

FetchCalls == {c \in CallIds : calls[c].op \in FetchOps}
ConnectCalls == {c \in CallIds : calls[c].op = "connect"}
CloseCalls == {c \in CallIds : calls[c].op = "close"}

\* connect's callback was handed success in the given phase of call c
connectSucceeded(c, phase) ==
    \E i \in 1..Len(calls[c].connectCbs) :
        calls[c].connectCbs[i] = [phase |-> phase, err |-> NoErr]

\* C1: a fetchAll call starts at most one reconnect and issues at most two
\* fetches, each with the call's own sql and bind; a second fetch is issued
\* exactly when the first one failed and the reconnect's callback got success,
\* on the adapter that reconnect created; and once the second fetch is
\* answered the caller's callback has been invoked once, with the second
\* answer (the second error when both attempts fail).
C1_RetryOnce ==
    \A c \in FetchCalls :
        LET k == calls[c] IN
        /\ k.reconnects <= 1
        /\ Len(k.issued) <= 2
        /\ \A i \in 1..Len(k.issued) : k.issued[i].sql = k.sql /\ k.issued[i].bind = k.bind
        /\ connectSucceeded(c, "reconnecting") <=> Len(k.issued) = 2
        /\ Len(k.issued) = 2 =>
               /\ k.reconnects = 1
               /\ IsErr(k.results[1].err)
               /\ adapters[k.issued[2].adapter].owner = c
               /\ k.issued[2].adapter # k.issued[1].adapter
        /\ Len(k.results) = 2 =>
               /\ k.pc = "done"
               /\ Len(k.cb) = 1
               /\ k.cb[1].err = k.results[2].err
               /\ k.cb[1].res = k.results[2].rows

\* a fetchAll on a connected facade failed twice and its caller holds the
\* second error
C1_Witness ==
    \E c \in FetchCalls :
        /\ calls[c].op = "fetchAll"
        /\ ~connectSucceeded(c, "connecting")
        /\ Len(calls[c].results) = 2
        /\ IsErr(calls[c].results[1].err) /\ IsErr(calls[c].results[2].err)
        /\ calls[c].results[1].err # calls[c].results[2].err
        /\ calls[c].cb = <<[err |-> calls[c].results[2].err, res |-> Undefined,
                            held |-> calls[c].issued[2].adapter]>>

\* C2: isConnected() is false while no connect was ever made; when a connect
\* callback gets success the facade holds the adapter the callback is given;
\* when it gets an error the facade holds nothing; and when close returns the
\* facade holds nothing, whether or not the adapter's close has completed.
C2_IsConnected ==
    /\ adapters = <<>> => ~isConnected
    /\ \A c \in ConnectCalls : \A i \in 1..Len(calls[c].cb) :
           LET r == calls[c].cb[i] IN
           IF IsErr(r.err) THEN r.held = NoAdapter
           ELSE r.held # NoAdapter /\ r.res = AdapterRef(r.held)
    /\ \A c \in CloseCalls : calls[c].after = NoAdapter

\* a connect was answered with success and with an error by now, and a close
\* has returned whose adapter is still closing
C2_Witness ==
    /\ \E c \in ConnectCalls : calls[c].pc = "done" /\ ~IsErr(calls[c].cb[1].err)
    /\ \E c \in CloseCalls :
           /\ calls[c].pc = "closing"
           /\ adapters[calls[c].on].closing = "closing"
           /\ ~isConnected

\* the adapter the connect of call c created
adapterOf(c) == CHOOSE a \in AdapterIds : adapters[a].owner = c

\* C3: when only connect calls were made, every connect whose
\* connection-result event has fired had its callback invoked exactly once
\* with that event's outcome, and once all events have fired the facade holds
\* what the last event set: its adapter on success, nothing on failure.
C3_EveryPendingCallback ==
    (ConnectCalls = CallIds) =>
        /\ \A c \in ConnectCalls :
               adapters[adapterOf(c)].conn # "connecting" =>
                   /\ Len(calls[c].cb) = 1
                   /\ IsErr(calls[c].cb[1].err) <=> adapters[adapterOf(c)].conn = "failed"
        /\ (adapters # <<>> /\ \A a \in AdapterIds : adapters[a].conn # "connecting") =>
               LET last == CHOOSE a \in AdapterIds : adapters[a].seq = Len(adapters)
               IN _adapter = IF adapters[last].conn = "connected" THEN last ELSE NoAdapter

\* C4: a statement the driver rejects is never issued again, and its error is
\* what the caller's callback receives.
C4_NoRetryOnQueryError ==
    \A c \in CallIds : \A i \in 1..Len(calls[c].results) :
        calls[c].results[i].err.kind = "QueryError" =>
            /\ Len(calls[c].issued) = i
            /\ calls[c].pc = "done" =>
                   /\ Len(calls[c].cb) = 1
                   /\ calls[c].cb[1].err = calls[c].results[i].err

\* an adapter is live from the start of its connect until its close is invoked
live(a) == adapters[a].closing = "open"

\* C5: at most one adapter the facade created is live.
C5_OneLiveAdapter == Cardinality({a \in AdapterIds : live(a)}) <= 1

\* ------------------------------------------------- statements (C6 - C8)

RECURSIVE countChar(_, _)
countChar(s, ch) ==
    IF Len(s) = 0 THEN 0
    ELSE (IF SubSeq(s, 1, 1) = ch THEN 1 ELSE 0) + countChar(SubSeq(s, 2, Len(s)), ch)

\* the texts of a non-empty sequence, in order, separated by ", "
RECURSIVE listed(_)
listed(texts) ==
    IF Len(texts) = 1 THEN texts[1]
    ELSE listed(SubSeq(texts, 1, Len(texts) - 1)) \o ", " \o texts[Len(texts)]

CallsOf(op) == {c \in CallIds : calls[c].op = op}
nonEmptyMapping(data) == data.t = "object" /\ Len(data.v) > 0

\* C6: an _insert with a non-empty mapping on a facade that holds an adapter
\* issues exactly one statement, INSERT INTO <table>(<fields>) VALUES(?, ...),
\* with one field and one placeholder per key in the mapping's order, and
\* binds the mapping's values in that order.
C6_InsertStatement ==
    \A c \in CallsOf("_insert") :
        LET k == calls[c]
            data == k.args.data
            n == Len(data.v)
        IN (nonEmptyMapping(data) /\ k.after # NoAdapter) =>
               /\ Len(k.issued) = 1
               /\ k.issued[1].adapter = k.after
               /\ k.issued[1].sql =
                      "INSERT INTO " \o escapeTable(k.args.tableName) \o "("
                      \o listed([i \in 1..n |-> escapeField(data.v[i].k)])
                      \o ") VALUES(" \o listed([i \in 1..n |-> "?"]) \o ")"
               /\ countChar(k.issued[1].sql, "?") = n
               /\ countChar(k.issued[1].sql, ",") = 2 * (n - 1)
               /\ k.issued[1].bind = Arr([i \in 1..n |-> data.v[i].v])

\* a connected facade was handed the two-field statement of {age, name}
C6_Witness ==
    \E c \in CallsOf("_insert") :
        /\ calls[c].args.data = Obj(<<Age, Bob>>)
        /\ calls[c].after # NoAdapter
        /\ adapters[calls[c].after].conn = "connected"
        /\ calls[c].issued =
               <<[adapter |-> calls[c].after,
                  sql |-> "INSERT INTO \"users\"(\"age\", \"name\") VALUES(?, ?)",
                  bind |-> Arr(<<Num("5"), Str("bob")>>)]>>

\* the inputs C7 names
invalidInput(k) ==
    \/ k.op = "_insert" /\ k.args.data \in {Obj(<<>>), Null}
    \/ k.op = "_update" /\ k.args.data = Obj(<<>>)
    \/ k.op = "_update" /\ k.args.where \in {Str(""), Arr(<<>>)}
    \/ k.op = "_remove" /\ k.args.where \in {Str(""), Arr(<<>>)}

ValidationMessages ==
    {"DBWrapper.insert() called without data !", "DBWrapper.update() called without data !",
     "DBWrapper.update() called without where !"}

validationFailure(k) ==
    /\ k.pc = "done"
    /\ Len(k.cb) = 1
    /\ k.cb[1].err.kind \in ValidationMessages
    /\ k.issued = <<>>

\* C7: _insert with {} or null, _update with empty data, and _update / _remove
\* with where "" or [] invoke the callback exactly once with a validation
\* error and issue nothing, then and ever after; the call leaves the held
\* reference and every adapter as they were.
C7_ValidationIssuesNothing ==
    /\ [](\A c \in CallIds : invalidInput(calls[c]) => validationFailure(calls[c]))
    /\ [][\A c \in 1..Len(calls') :
              (c > Len(calls) /\ invalidInput(calls'[c])) =>
                  /\ validationFailure(calls'[c])
                  /\ _adapter' = _adapter
                  /\ adapters' = adapters]_vars

\* an _update with where [] was refused on a connected facade
C7_Witness ==
    \E c \in CallsOf("_update") :
        /\ calls[c].args.where = Arr(<<>>)
        /\ nonEmptyMapping(calls[c].args.data)
        /\ validationFailure(calls[c])
        /\ isConnected /\ adapters[_adapter].conn = "connected"

\* the WHERE text of each where of the model that is not empty
expectedWhere(where) ==
    CASE where = Str("id=1") -> "(id=1)"
      [] where = Arr(<<Pair("id=?", Num("5"))>>) -> "(id=5)"
      [] OTHER -> "(a=1) AND (name='bob')"

\* C8: an _update with a non-empty mapping and a non-empty where on a facade
\* that holds an adapter issues exactly one statement,
\* UPDATE <table> SET f1=?, f2=?... WHERE <where text>, with one field=? per
\* key in the mapping's order; it binds the mapping's values in that order
\* and nothing else: the values of WHERE terms are in the text.
C8_UpdateStatement ==
    \A c \in CallsOf("_update") :
        LET k == calls[c]
            data == k.args.data
            n == Len(data.v)
        IN (nonEmptyMapping(data) /\ k.args.where \notin {Str(""), Arr(<<>>)}
            /\ k.after # NoAdapter) =>
               /\ Len(k.issued) = 1
               /\ k.issued[1].adapter = k.after
               /\ k.issued[1].sql =
                      "UPDATE " \o escapeTable(k.args.tableName) \o " SET "
                      \o listed([i \in 1..n |-> escapeField(data.v[i].k) \o "=?"])
                      \o " WHERE " \o expectedWhere(k.args.where)
               /\ expectedWhere(k.args.where) = _whereExpr(k.args.where).v
               /\ countChar(k.issued[1].sql, "?") = n
               /\ k.issued[1].bind = Arr([i \in 1..n |-> data.v[i].v])

\* a connected facade was handed the update of {name, age} where name is bob
C8_Witness ==
    \E c \in CallsOf("_update") :
        /\ calls[c].after # NoAdapter
        /\ adapters[calls[c].after].conn = "connected"
        /\ calls[c].args.where = Arr(<<Str("a=1"), Pair("name=?", Str("bob"))>>)
        /\ calls[c].issued =
               <<[adapter |-> calls[c].after,
                  sql |-> "UPDATE \"users\" SET \"name\"=?, \"age\"=? "
                          \o "WHERE (a=1) AND (name='bob')",
                  bind |-> Arr(<<Str("bob"), Num("5")>>)]>>

\* ------------------------------------------------ _whereExpr (C9, C10)

\* str with every ? replaced by text, taken literally
RECURSIVE plainReplace(_, _)
plainReplace(str, text) ==
    IF Len(str) = 0 THEN ""
    ELSE (IF SubSeq(str, 1, 1) = "?" THEN text ELSE SubSeq(str, 1, 1))
         \o plainReplace(SubSeq(str, 2, Len(str)), text)

\* the rendering C9 states for a term
claimedTerm(term) ==
    IF term.t = "string" THEN term.v
    ELSE plainReplace(term.v[1].v, String(escape(term.v[2])))

RECURSIVE claimedWhere(_)
claimedWhere(terms) ==
    IF Len(terms) = 1 THEN "(" \o claimedTerm(terms[1]) \o ")"
    ELSE claimedWhere(SubSeq(terms, 1, Len(terms) - 1))
         \o " AND (" \o claimedTerm(terms[Len(terms)]) \o ")"

isPair(term) == term.t = "array" /\ Len(term.v) = 2 /\ term.v[1].t = "string"

\* C9: for a non-empty sequence of raw strings and [template, value] pairs,
\* _whereExpr returns the terms in order, each in parentheses, joined with
\* " AND ", a pair rendered as its template with every ? replaced by the
\* escaped value.
C9_WhereRendering ==
    \A e \in whereLog :
        (/\ e.where.t = "array" /\ Len(e.where.v) > 0
         /\ \A i \in 1..Len(e.where.v) : e.where.v[i].t = "string" \/ isPair(e.where.v[i])
         /\ e.ret # TypeError)
        => e.ret = Str(claimedWhere(e.where.v))

\* the pairs of calls _whereExpr(t) and _whereExpr([t]) that have returned,
\* for the terms t of the given kinds that are not falsy
barePairs(kinds) ==
    {p \in whereLog \X whereLog :
        /\ p[2].where = Arr(<<p[1].where>>)
        /\ p[1].where.t \in kinds /\ ~falsy(p[1].where)
        /\ p[1].ret # TypeError /\ p[2].ret # TypeError}

\* C10 as stated: for a single term t of any kind (raw string, DBSelect or
\* [template, value] pair), _whereExpr(t) = _whereExpr([t]).
C10_BareEqualsWrapped ==
    \A p \in barePairs({"string", "DBSelect", "array"}) : p[1].ret = p[2].ret

\* C10 amended: for a single term t that is a non-empty raw string or a
\* DBSelect, _whereExpr(t) = _whereExpr([t]), the term in parentheses.
C10_BareStringOrSelect ==
    \A p \in barePairs({"string", "DBSelect"}) :
        /\ p[1].ret = p[2].ret
        /\ p[1].ret = Str("(" \o p[1].where.v \o ")")

\* a bare DBSelect and the sequence holding it were both rendered
C10_Witness ==
    \E p \in barePairs({"DBSelect"}) : p[2].ret = Str("(SELECT id FROM t)")

\* ------------------------------------------------ getLastInsertId (C11)

\* the statement of call c completes in this step
completes(c) == c \in CallIds /\ calls[c].pc = "query" /\ calls'[c].pc # "query"

\* the answer the driver gave in the step where the statement of c completes
answer(c) == calls'[c].results[Len(calls'[c].results)]

\* C11: getLastInsertId() of an adapter is null when the adapter is created;
\* a statement that completes successfully on it and generated a key makes it
\* that key, whether or not the statement was given a callback; nothing else
\* changes it.
C11_LastInsertId ==
    [][/\ \A a \in 1..Len(adapters') :
             a > Len(adapters) => adapters'[a]._lastInsertId = Null
       /\ \A a \in AdapterIds :
             adapters'[a]._lastInsertId =
                 IF \E c \in CallIds :
                        /\ completes(c) /\ calls[c].on = a
                        /\ ~IsErr(answer(c).err) /\ answer(c).insertId > 0
                 THEN LET c == CHOOSE k \in CallIds : completes(k) /\ calls[k].on = a
                      IN Num(ToString(answer(c).insertId))
                 ELSE getLastInsertId(a)]_vars

\* --------------------------------------- fetchRow / fetchOne / fetchCol

\* the calls of op that are over and whose fetchAll ended with a result set
answered(op) ==
    {c \in CallsOf(op) :
        /\ calls[c].pc = "done" /\ Len(calls[c].results) > 0
        /\ ~IsErr(calls[c].results[Len(calls[c].results)].err)}

\* the rows fetchAll ended with for call c
rowsFor(c) == calls[c].results[Len(calls[c].results)].rows.v

\* what the callback of c was given: the error and the result
delivered(c) == [err |-> calls[c].cb[1].err, res |-> calls[c].cb[1].res]

\* C12: fetchRow delivers the first row of the result set, or null when it
\* is empty; fetchOne delivers the first column of the first row, and for an
\* empty result set undefined with no error, which is not what it delivers
\* for a row whose first column is null.
C12_FetchRowFetchOne ==
    /\ \A c \in answered("fetchRow") :
           /\ Len(calls[c].cb) = 1
           /\ delivered(c) = [err |-> NoErr,
                              res |-> IF Len(rowsFor(c)) > 0 THEN rowsFor(c)[1] ELSE Null]
    /\ \A c \in answered("fetchOne") :
           /\ Len(calls[c].cb) = 1
           /\ ~IsErr(delivered(c).err)
           /\ IF Len(rowsFor(c)) > 0
              THEN delivered(c) = [err |-> NoErr, res |-> rowsFor(c)[1].v[1].v]
              ELSE /\ delivered(c).res = Undefined
                   /\ delivered(c) # [err |-> NoErr, res |-> Null]

\* one fetchOne got an empty result set and another a row whose first column
\* is null, and what they delivered differs
C12_Witness ==
    \E c, d \in answered("fetchOne") :
        /\ rowsFor(c) = <<>> /\ delivered(c).res = Undefined
        /\ Len(rowsFor(d)) = 1 /\ rowsFor(d)[1].v[1].v = Null
        /\ delivered(d) = [err |-> NoErr, res |-> Null]

\* the value of a row under key k
valueUnder(row, k) == LET j == CHOOSE i \in 1..Len(row.v) : row.v[i].k = k IN row.v[j].v

\* the error fetchAll ended with for a call that got no result set
fetchAllError(c) ==
    LET k == calls[c]
    IN IF Len(k.connectCbs) > 0 /\ IsErr(k.connectCbs[Len(k.connectCbs)].err)
       THEN k.connectCbs[Len(k.connectCbs)].err
       ELSE k.results[Len(k.results)].err

\* C13: fetchCol delivers a sequence as long as the result set whose i-th
\* element is row i's value under the first key of the first row, the empty
\* sequence when there are no rows, and a fetchAll error as it is, without a
\* result.
C13_FetchCol ==
    \A c \in CallsOf("fetchCol") :
        calls[c].pc = "done" =>
            /\ Len(calls[c].cb) = 1
            /\ IF c \in answered("fetchCol")
               THEN /\ delivered(c).err = NoErr
                    /\ delivered(c).res.t = "array"
                    /\ Len(delivered(c).res.v) = Len(rowsFor(c))
                    /\ \A i \in 1..Len(rowsFor(c)) :
                           delivered(c).res.v[i] =
                               valueUnder(rowsFor(c)[i], rowsFor(c)[1].v[1].k)
               ELSE delivered(c) = [err |-> fetchAllError(c), res |-> Undefined]

\* a fetchCol over the rows {x:1,y:2},{x:3,y:4} delivered [1,3], and another
\* one delivered the error of its retried fetch
C13_Witness ==
    /\ \E c \in answered("fetchCol") :
           /\ Len(rowsFor(c)) = 2
           /\ delivered(c).res = Arr(<<Num("1"), Num("3")>>)
    /\ \E c \in CallsOf("fetchCol") :
           /\ calls[c].pc = "done" /\ Len(calls[c].results) = 2
           /\ delivered(c) = [err |-> calls[c].results[2].err, res |-> Undefined]

\* --------------------------------------------------------- escape (C14)

\* what a synchronous call returned
returned(c) == calls[c].results[1]

\* the text C14 states for one value: a DBExpr is its wrapped string, any
\* other value its adapter-escaped form
claimedEscape(value) ==
    IF value.t = "DBExpr" THEN value.v ELSE joinText(adapterEscape(value))

\* C14: the text emitted for a DBExpr is its wrapped string on every escaping
\* path: the facade's escape of a DBExpr, the facade's escape of an array that
\* holds one, the adapter's escape of a DBExpr and a [template, DBExpr] WHERE
\* pair; the facade's escape of an array is the escaped forms of its elements
\* in order, joined with commas.
C14_DBExprVerbatim ==
    \A c \in CallIds :
        LET k == calls[c] IN
        (k.op \in {"escape", "adapter.escape", "_whereExpr"} /\ k.pc = "done") =>
            LET value == k.args.value IN
            /\ (k.op \in {"escape", "adapter.escape"} /\ value.t = "DBExpr") =>
                   String(returned(c)) = value.v
            /\ (k.op = "escape" /\ value.t = "array" /\ Len(value.v) > 0) =>
                   returned(c) = Str(listed([i \in 1..Len(value.v) |->
                                               claimedEscape(value.v[i])]))
            /\ (k.op = "_whereExpr" /\ value.v[1].v[2].t = "DBExpr") =>
                   returned(c) = Str("(" \o plainReplace(value.v[1].v[1].v,
                                                         value.v[1].v[2].v) \o ")")

\* ---------------------------------------------------- constructor (C15)

SupportedNames == {"mysql-libmysqlclient", "mysql", "sqlite3", "pg"}

\* the constructor was given two arguments, the first one a supported name
wellFormed(arguments) ==
    /\ Len(arguments) >= 2
    /\ arguments[1].t = "string" /\ arguments[1].v \in SupportedNames

\* C15: new DBWrapper throws and yields no facade when it is given fewer
\* than two arguments or a name outside the supported set; with a supported
\* name and connection parameters it yields a facade that holds no adapter,
\* and the construction creates no adapter and starts no connection.
C15_Constructor ==
    /\ [](\A c \in CallsOf("new DBWrapper") :
             LET arguments == calls[c].args.arguments IN
             IF wellFormed(arguments)
             THEN /\ calls[c].pc = "done"
                  /\ returned(c).t = "DBWrapper"
                  /\ falsy(returned(c).v._adapter)
                  /\ returned(c).v.dbAdapterName = arguments[1]
                  /\ returned(c).v.connectionParams = arguments[2]
             ELSE calls[c].pc = "threw" /\ returned(c).t = "threw")
    /\ [][\A c \in 1..Len(calls') :
              (c > Len(calls) /\ calls'[c].op = "new DBWrapper") =>
                  adapters' = adapters /\ _adapter' = _adapter]_vars

\* one construction with an unknown name has thrown and one with "pg" and
\* connection parameters has yielded a facade
C15_Witness ==
    \E c, d \in CallsOf("new DBWrapper") :
        /\ Len(calls[c].args.arguments) = 2
        /\ calls[c].args.arguments[1] = Str("oracle")
        /\ calls[c].pc = "threw"
        /\ Len(calls[d].args.arguments) = 2
        /\ calls[d].args.arguments[1] = Str("pg")
        /\ calls[d].pc = "done" /\ returned(d).t = "DBWrapper"

\* ------------------------------------- connection protocol (C16 - C18)

\* C16: whenever the facade holds an adapter, that adapter's
\* connection-result event has fired with success; a fetch that took the held
\* adapter as an existing connection is not waiting on an adapter that is
\* still connecting.
C16_ConnectedOnlyAfterSuccess ==
    /\ isConnected => adapters[_adapter].conn = "connected"
    /\ \A c \in FetchCalls :
           (calls[c].pc = "fetch1" /\ calls[c].connectCbs = <<>>) =>
               adapters[calls[c].on].conn # "connecting"

\* the adapter the reconnect of fetch call c created
reconnectAdapter(c) ==
    CHOOSE a \in AdapterIds :
        /\ adapters[a].owner = c
        /\ \A b \in AdapterIds : adapters[b].owner = c => b <= a

\* the reconnect of fetch call c has failed and its listener has run
reconnectFailed(c) ==
    /\ calls[c].reconnects = 1
    /\ adapters[reconnectAdapter(c)].conn = "failed"
    /\ calls[c].pc # "threw"

\* C17: when the first fetch of a fetchAll fails and the reconnect fails, no
\* second fetch is issued, the caller's callback gets the reconnect's error
\* and not the fetch error, and the facade holds nothing at that moment.
C17_ReconnectFails ==
    \A c \in FetchCalls :
        reconnectFailed(c) =>
            /\ Len(calls[c].issued) = 1 /\ Len(calls[c].results) = 1
            /\ calls[c].pc = "done"
            /\ calls[c].cb = <<[err |-> Err("ConnectionError", reconnectAdapter(c)),
                                res |-> Undefined, held |-> NoAdapter]>>
            /\ calls[c].cb[1].err # calls[c].results[1].err

\* a fetchAll on a connected facade lost its fetch and then its reconnect
C17_Witness ==
    \E c \in FetchCalls :
        /\ reconnectFailed(c)
        /\ calls[c].op = "fetchAll"
        /\ calls[c].issued[1].adapter # reconnectAdapter(c)
        /\ adapters[calls[c].issued[1].adapter].conn = "connected"
        /\ IsErr(calls[c].results[1].err)
        /\ ~isConnected

\* the calls C18 is about
Asynchronous(c) == c \in CallIds /\ calls[c].op \in {"connect"} \cup FetchOps

\* C18: with adapters that answer every connect and every fetch, every
\* connect and every fetchAll call invokes its callback eventually and never
\* twice, whatever other connect, fetchAll and close calls are made, and no
\* connection-result listener runs against an empty adapter reference.
C18_EveryCallbackOnce ==
    /\ [](\A c \in CallIds :
             Asynchronous(c) => Len(calls[c].cb) <= 1 /\ calls[c].pc # "threw")
    /\ \A c \in 1..MaxCalls :
           [](Asynchronous(c) => <>(Asynchronous(c) /\ Len(calls[c].cb) = 1))

\* ------------------------------------------- _query without callback (C19)

\* the caller gave _query no completion callback after sql
noCallback(rest) == Len(rest) = 0 \/ rest[Len(rest)].t # "function"

\* the bind values a caller who gave no callback supplied after sql
supplied(rest) ==
    IF Len(rest) = 0 THEN Arr(<<>>)
    ELSE IF rest[1].t = "array" THEN rest[1]
    ELSE Arr(rest)

\* C19: a _query call made without a callback on a facade that holds an
\* adapter issues its statement once with the bind values the caller gave,
\* whatever the argument shape, and its outcome is dropped: no callback is
\* invoked and nothing is thrown.
C19_FireAndForget ==
    \A c \in CallsOf("_query") :
        (noCallback(calls[c].args.rest) /\ calls[c].after # NoAdapter) =>
            /\ Len(calls[c].issued) = 1
            /\ calls[c].issued[1].bind = supplied(calls[c].args.rest)
            /\ calls[c].pc # "threw"
            /\ calls[c].cb = <<>>

\* ------------------------------------------------------ blank where (C20)

RECURSIVE onlySpaces(_)
onlySpaces(s) == Len(s) = 0 \/ (SubSeq(s, 1, 1) = " " /\ onlySpaces(SubSeq(s, 2, Len(s))))

\* a where that is empty or blank: an empty or whitespace-only string, an
\* empty list, or a list whose only terms are empty strings
blank(where) ==
    \/ where.t = "string" /\ onlySpaces(where.v)
    \/ where.t = "array" /\ \A i \in 1..Len(where.v) : where.v[i] = Str("")

\* C20: on a facade that holds an adapter, an _update with data or a _remove
\* whose where is empty or blank fails with a validation error through the
\* callback and issues no statement.
C20_BlankWhereRefused ==
    \A c \in CallsOf("_update") \cup CallsOf("_remove") :
        (blank(calls[c].args.where) /\ calls[c].after # NoAdapter) =>
            validationFailure(calls[c])

====
